---------------------------- MODULE Spec2Model ----------------------------
(***************************************************************************)
(* datacode: a generator that embeds files into Go source as functions     *)
(* returning their bytes (src/datacode.go).                                *)
(*                                                                         *)
(* Strings are Go strings: sequences of bytes (0..255), UTF-8 where the    *)
(* library decodes them.  Three specifications share the module:           *)
(*   SpecFunc   the identifier derivation file.Func                        *)
(*   SpecCodec  file.Raw / file.data / file.pack and the generated         *)
(*              function of tmplText                                       *)
(*   SpecMain   main, doIt, exists, config.Files                           *)
(***************************************************************************)
EXTENDS Integers, Sequences, FiniteSets, TLC

VARIABLES
    \* flags / config fields shared by Func and main
    prefix, suffix,
    \* file.Func: receiver's Path, position, and the successive values of `name`
    Path, fpc, afterPrefix, afterSuffix, mapped, lowered, name,
    \* flags / config fields shared by the codec and main
    compress, level,
    \* one embedded file: the bytes ioutil.ReadFile returned, the literal Raw
    \* rendered into the template, whether the generated source was edited
    \* afterwards, and what a call of the generated function returned
    content, cpc, literal, edited, ret,
    \* main: the remaining flags and flag.Args()
    args, force, gofmt, override,
    \* the output path: what os.Stat answers for it and what it holds
    outStat, outFile,
    \* main's position, its exit status, p, the files `range .Files` walks
    \* and the index of the walk, the functions rendered into buf, what doIt
    \* returned, and the calls made so far with their outcomes
    pc, exitCode, pkg, files, fidx, buf, result, trace

mainVars == <<args, force, gofmt, override, outStat, outFile,
              pc, exitCode, pkg, files, fidx, buf, result, trace>>

codecVars == <<content, cpc, literal, edited, ret>>

funcVars == <<Path, fpc, afterPrefix, afterSuffix, mapped, lowered, name>>

vars == <<prefix, suffix, compress, level, funcVars, codecVars, mainVars>>

-----------------------------------------------------------------------------
(* Bounds                                                                  *)

MaxPathLen == 3
MaxDataLen == 2
MaxArgs == 3

-----------------------------------------------------------------------------
(* Bytes and runes                                                         *)

\* '_' as written in rep and in the cutset of strings.Trim
Underscore == 95
\* the ASCII limit of rep: r > 127
MaxASCII == 127
\* utf8.RuneError, what the library decodes an invalid UTF-8 byte to
RuneError == 65533

\* bytes the paths, prefixes and suffixes are made of:
\*   a A 1 . _   and 0xC3 0x89 (U+00C9, a letter), 0xC3 0x97 (U+00D7, the
\*   multiplication sign, not a letter); 0xC3, 0x89 and 0x97 alone are invalid
PathBytes == {97, 65, 49, 46, 95, 195, 137, 151}

RECURSIVE SeqsUpTo(_, _)
SeqsUpTo(S, n) ==
    IF n = 0 THEN {<<>>}
    ELSE LET shorter == SeqsUpTo(S, n - 1)
         IN  shorter \cup {Append(s, b) : s \in shorter, b \in S}

IsCont(b) == b >= 128 /\ b <= 191

\* utf8.DecodeRuneInString(s[i:]): the rune at byte i and its width
DecodeRuneAt(s, i) ==
    LET b0 == s[i]
        n  == Len(s) - i
        c1 == IF n >= 1 THEN s[i + 1] ELSE 0
        c2 == IF n >= 2 THEN s[i + 2] ELSE 0
        c3 == IF n >= 3 THEN s[i + 3] ELSE 0
    IN  IF b0 < 128 THEN [r |-> b0, w |-> 1]
        ELSE IF b0 >= 194 /\ b0 <= 223 /\ IsCont(c1)
        THEN [r |-> (b0 - 192) * 64 + (c1 - 128), w |-> 2]
        ELSE IF b0 >= 224 /\ b0 <= 239 /\ IsCont(c1) /\ IsCont(c2)
                /\ (b0 = 224 => c1 >= 160) /\ (b0 = 237 => c1 <= 159)
        THEN [r |-> (b0 - 224) * 4096 + (c1 - 128) * 64 + (c2 - 128), w |-> 3]
        ELSE IF b0 >= 240 /\ b0 <= 244 /\ IsCont(c1) /\ IsCont(c2) /\ IsCont(c3)
                /\ (b0 = 240 => c1 >= 144) /\ (b0 = 244 => c1 <= 143)
        THEN [r |-> (b0 - 240) * 262144 + (c1 - 128) * 4096
                     + (c2 - 128) * 64 + (c3 - 128), w |-> 4]
        ELSE [r |-> RuneError, w |-> 1]

RECURSIVE RunesFrom(_, _)
RunesFrom(s, i) ==
    IF i > Len(s) THEN <<>>
    ELSE LET d == DecodeRuneAt(s, i) IN <<d.r>> \o RunesFrom(s, i + d.w)

\* the runes `for _, c := range s` yields
Runes(s) == RunesFrom(s, 1)

\* utf8.EncodeRune
EncodeRune(r) ==
    IF r < 128 THEN <<r>>
    ELSE IF r < 2048 THEN <<192 + (r \div 64), 128 + (r % 64)>>
    ELSE IF r >= 55296 /\ r <= 57343 THEN <<239, 191, 189>>
    ELSE IF r < 65536
    THEN <<224 + (r \div 4096), 128 + ((r \div 64) % 64), 128 + (r % 64)>>
    ELSE <<240 + (r \div 262144), 128 + ((r \div 4096) % 64),
           128 + ((r \div 64) % 64), 128 + (r % 64)>>

RECURSIVE EncodeRunes(_)
EncodeRunes(rs) ==
    IF rs = <<>> THEN <<>> ELSE EncodeRune(Head(rs)) \o EncodeRunes(Tail(rs))

\* unicode.IsDigit, unicode.IsLetter, unicode.ToLower on the runes the
\* modelled bytes decode to: Latin-1 (U+0000..U+00FF) and U+FFFD
IsDigit(r) == r >= 48 /\ r <= 57

IsLetter(r) ==
    \/ r >= 65 /\ r <= 90
    \/ r >= 97 /\ r <= 122
    \/ r \in {170, 181, 186}
    \/ r >= 192 /\ r <= 255 /\ r \notin {215, 247}

ToLowerRune(r) ==
    IF r >= 65 /\ r <= 90 THEN r + 32
    ELSE IF r >= 192 /\ r <= 222 /\ r # 215 THEN r + 32
    ELSE r

-----------------------------------------------------------------------------
(* file.Func                                                               *)

HasPrefix(s, p) == Len(s) >= Len(p) /\ SubSeq(s, 1, Len(p)) = p
HasSuffix(s, x) == Len(s) >= Len(x) /\ SubSeq(s, Len(s) - Len(x) + 1, Len(s)) = x

\* a prefix test that folds ASCII case (strings.EqualFold in place of ==)
FoldByte(b) == IF b >= 65 /\ b <= 90 THEN b + 32 ELSE b
TrimPrefixFold(s, p) ==
    IF Len(s) >= Len(p)
       /\ \A i \in 1..Len(p) : FoldByte(s[i]) = FoldByte(p[i])
    THEN SubSeq(s, Len(p) + 1, Len(s)) ELSE s

\* strings.TrimPrefix
TrimPrefix(s, p) == IF HasPrefix(s, p) THEN SubSeq(s, Len(p) + 1, Len(s)) ELSE s

\* strings.TrimSuffix
TrimSuffix(s, x) == IF HasSuffix(s, x) THEN SubSeq(s, 1, Len(s) - Len(x)) ELSE s

\* rep without the digit case
repNoDigit(r) == IF IsLetter(r) \/ r > MaxASCII THEN r ELSE Underscore

\* the closure rep of file.Func
rep(r) == IF IsDigit(r) \/ IsLetter(r) \/ r > MaxASCII THEN r ELSE Underscore

\* strings.Map(rep, s): every rune of s, an invalid byte read as RuneError,
\* replaced by rep of it and encoded again
MapRep(s) ==
    LET rs == Runes(s) IN EncodeRunes([i \in 1..Len(rs) |-> rep(rs[i])])

\* strings.ToLower
ToLower(s) ==
    LET rs == Runes(s) IN EncodeRunes([i \in 1..Len(rs) |-> ToLowerRune(rs[i])])

RECURSIVE TrimLeftByte(_, _)
TrimLeftByte(s, c) ==
    IF s # <<>> /\ Head(s) = c THEN TrimLeftByte(Tail(s), c) ELSE s

RECURSIVE TrimRightByte(_, _)
TrimRightByte(s, c) ==
    IF s # <<>> /\ s[Len(s)] = c
    THEN TrimRightByte(SubSeq(s, 1, Len(s) - 1), c) ELSE s

\* strings.Trim(s, "_")
TrimUnderscores(s) == TrimRightByte(TrimLeftByte(s, Underscore), Underscore)

\* file.Func as a function of the receiver's Path and the config's
\* Prefix and Suffix
Func(p, pre, suf) ==
    TrimUnderscores(ToLower(MapRep(TrimSuffix(TrimPrefix(p, pre), suf))))

-----------------------------------------------------------------------------
(* file.pack, file.data, file.Raw                                          *)

\* flate.NoCompression, the level whose output (stored blocks) is modelled
NoCompression == 0
\* flate.NewWriter accepts the levels HuffmanOnly (-2) to BestCompression (9)
MinLevel == -2
MaxLevel == 9

\* values of -level: NoCompression and one above the valid range
Levels == {NoCompression, MaxLevel + 1}

LE16(n) == <<n % 256, n \div 256>>

\* a stored block: the header byte (BFINAL in bit 0, BTYPE = 00), LEN, NLEN
\* and the bytes
StoredBlock(final, bytes) ==
    <<IF final THEN 1 ELSE 0>> \o LE16(Len(bytes)) \o LE16(65535 - Len(bytes))
        \o bytes

\* what flate.Writer at NoCompression has written after Write(bytes) and
\* Close(): the pending bytes as one stored block (none when there are no
\* bytes), then the final empty stored block.  The other valid levels write
\* Huffman-coded blocks, whose bytes are not computed here: -level ranges
\* over NoCompression and an invalid value only
Deflate(bytes) ==
    (IF bytes = <<>> THEN <<>> ELSE StoredBlock(FALSE, bytes))
        \o StoredBlock(TRUE, <<>>)

\* file.pack: [err, bytes]
pack(bytes, lvl) ==
    IF lvl < MinLevel \/ lvl > MaxLevel
    THEN [err |-> "flate: invalid compression level", bytes |-> <<>>]
    ELSE [err |-> "nil", bytes |-> Deflate(bytes)]

\* file.data after ioutil.ReadFile returned `bytes`: [err, bytes]
data(bytes, comp, lvl) ==
    IF comp THEN pack(bytes, lvl) ELSE [err |-> "nil", bytes |-> bytes]

HexDigits ==
    <<"0", "1", "2", "3", "4", "5", "6", "7",
      "8", "9", "a", "b", "c", "d", "e", "f">>

\* %x without the precision: one digit for a byte below 16
FormatByteNoPad(b) ==
    <<"\\", "x">> \o (IF b < 16 THEN <<HexDigits[b + 1]>>
                      ELSE <<HexDigits[(b \div 16) + 1], HexDigits[(b % 16) + 1]>>)

\* fmt.Fprintf(out, "\\x%.2x", b): a backslash, x, two lower-case hex digits
FormatByte(b) ==
    <<"\\", "x", HexDigits[(b \div 16) + 1], HexDigits[(b % 16) + 1]>>

RECURSIVE FormatBytes(_)
FormatBytes(bytes) ==
    IF bytes = <<>> THEN <<>>
    ELSE FormatByte(Head(bytes)) \o FormatBytes(Tail(bytes))

\* file.Raw after ioutil.ReadFile returned `bytes`: [err, str]
Raw(bytes, comp, lvl) ==
    LET d == data(bytes, comp, lvl)
    IN  IF d.err # "nil" THEN [err |-> d.err, str |-> <<>>]
        ELSE [err |-> "nil", str |-> FormatBytes(d.bytes)]

-----------------------------------------------------------------------------
(* The function tmplText generates                                         *)

IsHexDigit(c) == \E k \in 1..16 : HexDigits[k] = c
HexValue(c) == (CHOOSE k \in 1..16 : HexDigits[k] = c) - 1

\* the byte of a character of the literal that is not part of an escape
\* (only x and the hex digits occur)
CharByte(c) ==
    IF c = "x" THEN 120
    ELSE IF HexValue(c) < 10 THEN 48 + HexValue(c) ELSE 87 + HexValue(c)

\* the value the Go compiler gives the interpreted string literal
\* data := "<lit>": [ok, bytes]; not ok when the literal is malformed and the
\* generated file does not compile
RECURSIVE Interpret(_)
Interpret(lit) ==
    IF lit = <<>> THEN [ok |-> TRUE, bytes |-> <<>>]
    ELSE IF Head(lit) = "\\"
    THEN IF Len(lit) >= 4 /\ lit[2] = "x" /\ IsHexDigit(lit[3]) /\ IsHexDigit(lit[4])
         THEN LET rest == Interpret(SubSeq(lit, 5, Len(lit)))
              IN  [ok |-> rest.ok,
                   bytes |-> <<HexValue(lit[3]) * 16 + HexValue(lit[4])>> \o rest.bytes]
         ELSE [ok |-> FALSE, bytes |-> <<>>]
    ELSE LET rest == Interpret(Tail(lit))
         IN  [ok |-> rest.ok, bytes |-> <<CharByte(Head(lit))>> \o rest.bytes]

\* flate.NewReader(in) read to the end by io.Copy, from byte i of s with acc
\* already written to out: [kind, bytes, err].  kind is "eof" when the final
\* block ended (bytes after it are never read), "err" for a read error, and
\* "huffman" when a block with BTYPE 01 or 10 starts: Huffman-coded blocks are
\* not decoded here
RECURSIVE InflateFrom(_, _, _)
InflateFrom(s, i, acc) ==
    IF i > Len(s)
    THEN [kind |-> "err", bytes |-> acc, err |-> "unexpected EOF"]
    ELSE LET final == s[i] % 2 = 1
             btype == (s[i] \div 2) % 4
         IN  IF btype = 3
             THEN [kind |-> "err", bytes |-> acc, err |-> "flate: corrupt input"]
             ELSE IF btype # 0
             THEN [kind |-> "huffman", bytes |-> acc, err |-> "nil"]
             ELSE IF i + 4 > Len(s)
             THEN [kind |-> "err", bytes |-> acc, err |-> "unexpected EOF"]
             ELSE LET n  == s[i + 1] + 256 * s[i + 2]
                      nn == s[i + 3] + 256 * s[i + 4]
                  IN  IF nn # 65535 - n
                      THEN [kind |-> "err", bytes |-> acc,
                            err |-> "flate: corrupt input"]
                      ELSE IF i + 4 + n > Len(s)
                      THEN [kind |-> "err", bytes |-> acc,
                            err |-> "unexpected EOF"]
                      ELSE IF final
                      THEN [kind |-> "eof",
                            bytes |-> acc \o SubSeq(s, i + 5, i + 4 + n),
                            err |-> "nil"]
                      ELSE InflateFrom(s, i + 5 + n,
                                       acc \o SubSeq(s, i + 5, i + 4 + n))

Inflate(s) == InflateFrom(s, 1, <<>>)

\* the file contents of the model
ContentBytes == {0, 10, 92, 255}
Contents == SeqsUpTo(ContentBytes, MaxDataLen)

\* a result of the generated function: the []byte (isNil for a nil slice),
\* the error ("nil" for none), and whether the call panicked instead
Value(bytes) == [bytes |-> bytes, isNil |-> FALSE, err |-> "nil", panic |-> FALSE]
Error(e) == [bytes |-> <<>>, isNil |-> TRUE, err |-> e, panic |-> FALSE]
Panic(e) == [bytes |-> <<>>, isNil |-> TRUE, err |-> e, panic |-> TRUE]
NoReturn == [bytes |-> <<>>, isNil |-> TRUE, err |-> "nil", panic |-> FALSE]

\* a generated function that panics where the template returns the error
GeneratedFuncPanics(d, comp) ==
    IF ~comp THEN {Value(d)}
    ELSE LET r == Inflate(d)
         IN  IF r.kind = "err" THEN {Panic(r.err)}
             ELSE IF r.kind = "eof" THEN {Value(r.bytes)}
             ELSE {Panic("flate: corrupt input")} \cup {Value(b) : b \in Contents}

\* the body of the generated function, data being the interpreted literal:
\* the set of results it can return.  Without compression io.Copy reads a
\* strings.Reader, which never fails.  With compression an error of io.Copy
\* is returned with nil bytes; after a read to the end r.Close() returns nil.
\* A Huffman-coded block ends either way.
GeneratedFunc(d, comp) ==
    IF ~comp THEN {Value(d)}
    ELSE LET r == Inflate(d)
         IN  IF r.kind = "err" THEN {Error(r.err)}
             ELSE IF r.kind = "eof" THEN {Value(r.bytes)}
             ELSE {Error("unexpected EOF"), Error("flate: corrupt input")}
                     \cup {Value(b) : b \in Contents}

-----------------------------------------------------------------------------
(* config.Files, doIt, exists, main                                        *)

\* the exit statuses: os.Exit(-1) after flag.Usage, log.Fatal, a panic
ExitUsage == 255
ExitFatal == 1
ExitPanic == 2

\* the rendered document: the package clause, whether the bodies inflate,
\* and per file the function's name and literal; isNil for a nil []byte
NilDoc ==
    [isNil |-> TRUE, pkg |-> "", compress |-> FALSE, funcs |-> <<>>,
     formatted |-> FALSE]
Doc(p, comp, fs) ==
    [isNil |-> FALSE, pkg |-> p, compress |-> comp, funcs |-> fs,
     formatted |-> FALSE]

\* exists keyed by the path instead of the function name
RECURSIVE FilesLoopByPath(_, _, _, _, _)
FilesLoopByPath(as, pre, suf, i, seen) ==
    IF i > Len(as) THEN [err |-> "nil", ident |-> <<>>, files |-> as]
    ELSE IF as[i] \in seen
    THEN [err |-> "duplicate function detected",
          ident |-> Func(as[i], pre, suf), files |-> <<>>]
    ELSE FilesLoopByPath(as, pre, suf, i + 1, seen \cup {as[i]})

FilesByPath(as, pre, suf) == FilesLoopByPath(as, pre, suf, 1, {})

\* the second loop of config.Files from index i, seen being the keys of
\* the map exists
RECURSIVE FilesLoop(_, _, _, _, _)
FilesLoop(as, pre, suf, i, seen) ==
    IF i > Len(as) THEN [err |-> "nil", ident |-> <<>>, files |-> as]
    ELSE LET fname == Func(as[i], pre, suf)
         IN  IF fname \in seen
             THEN [err |-> "duplicate function detected", ident |-> fname,
                   files |-> <<>>]
             ELSE FilesLoop(as, pre, suf, i + 1, seen \cup {fname})

\* config.Files: [err, ident, files], ident being the name the error prints
Files(as, pre, suf) == FilesLoop(as, pre, suf, 1, {})

\* whether go/format parses the document: the package name and every function
\* name must be Go identifiers (a letter or _ first, then letters, digits, _)
IsIdentifier(str) ==
    LET rs == Runes(str)
    IN  /\ rs # <<>>
        /\ IsLetter(rs[1]) \/ rs[1] = Underscore
        /\ \A k \in 1..Len(rs) :
              IsLetter(rs[k]) \/ IsDigit(rs[k]) \/ rs[k] = Underscore

Parses(doc) ==
    /\ doc.pkg = "main"
    /\ \A k \in 1..Len(doc.funcs) : IsIdentifier(doc.funcs[k].name)

\* doIt that hands back the rendered text when the formatter fails
doItReturnUnformatted(doc, fmtOn) ==
    IF ~fmtOn THEN [data |-> doc, err |-> "nil", formatCalled |-> FALSE]
    ELSE IF Parses(doc)
    THEN [data |-> [doc EXCEPT !.formatted = TRUE], err |-> "nil",
          formatCalled |-> TRUE]
    ELSE [data |-> doc, err |-> "format: syntax error", formatCalled |-> TRUE]

\* doIt after tmpl.Execute rendered doc: [data, err], and whether
\* format.Source was called
doItReturn(doc, fmtOn) ==
    IF ~fmtOn THEN [data |-> doc, err |-> "nil", formatCalled |-> FALSE]
    ELSE IF Parses(doc)
    THEN [data |-> [doc EXCEPT !.formatted = TRUE], err |-> "nil",
          formatCalled |-> TRUE]
    ELSE [data |-> NilDoc, err |-> "format: syntax error", formatCalled |-> TRUE]

\* exists(path) for what os.Stat answers: "true", "false" or "panic"
exists(stat) ==
    IF stat = "exists" THEN "true"
    ELSE IF stat = "absent" THEN "false"
    ELSE "panic"

Event(op, res) == [op |-> op, res |-> res]

Exit(code) ==
    /\ pc' = "exited"
    /\ exitCode' = code

\* main without the NArg check
ParseArgsNoCheck ==
    /\ pc = "flag.Parse"
    /\ pc' = "exists"
    /\ UNCHANGED <<trace, exitCode>>
    /\ UNCHANGED <<args, force, gofmt, override, outStat, outFile, pkg, files,
                   fidx, buf, result>>
    /\ UNCHANGED <<prefix, suffix, compress, level, funcVars, codecVars>>

\* main, lines 79-84: flag.Parse and the check of flag.NArg
ParseArgs ==
    /\ pc = "flag.Parse"
    /\ IF Len(args) = 0
       THEN /\ trace' = Append(trace, Event("flag.Usage", "ok"))
            /\ Exit(ExitUsage)
       ELSE /\ pc' = "exists"
            /\ UNCHANGED <<trace, exitCode>>
    /\ UNCHANGED <<args, force, gofmt, override, outStat, outFile, pkg, files,
                   fidx, buf, result>>
    /\ UNCHANGED <<prefix, suffix, compress, level, funcVars, codecVars>>

\* the guard with the negation of force dropped: *force && exists(*out)
CheckExistsForceInverted ==
    /\ pc = "exists"
    /\ IF ~force
       THEN /\ pc' = "ImportDir"
            /\ UNCHANGED <<trace, exitCode>>
       ELSE LET e == exists(outStat)
            IN  /\ trace' = Append(trace, Event("os.Stat", outStat))
                /\ IF e = "panic" THEN Exit(ExitPanic)
                   ELSE IF e = "true" THEN Exit(ExitFatal)
                   ELSE pc' = "ImportDir" /\ exitCode' = exitCode
    /\ UNCHANGED <<args, force, gofmt, override, outStat, outFile, pkg, files,
                   fidx, buf, result>>
    /\ UNCHANGED <<prefix, suffix, compress, level, funcVars, codecVars>>

\* main, lines 86-88: !*force && exists(*out); exists is not called when
\* force is set
CheckExists ==
    /\ pc = "exists"
    /\ IF force
       THEN /\ pc' = "ImportDir"
            /\ UNCHANGED <<trace, exitCode>>
       ELSE LET e == exists(outStat)
            IN  /\ trace' = Append(trace, Event("os.Stat", outStat))
                /\ IF e = "panic" THEN Exit(ExitPanic)
                   ELSE IF e = "true" THEN Exit(ExitFatal)
                   ELSE pc' = "ImportDir" /\ exitCode' = exitCode
    /\ UNCHANGED <<args, force, gofmt, override, outStat, outFile, pkg, files,
                   fidx, buf, result>>
    /\ UNCHANGED <<prefix, suffix, compress, level, funcVars, codecVars>>

\* main, lines 90-98: the package name is the override or what
\* build.ImportDir finds in the output directory, which can fail
ResolvePackage ==
    /\ pc = "ImportDir"
    /\ IF override # ""
       THEN /\ pkg' = override
            /\ pc' = "Files"
            /\ UNCHANGED <<trace, exitCode>>
       ELSE \E found \in {"main", ""} :
              IF found = ""
              THEN /\ trace' = Append(trace, Event("build.ImportDir", "fail"))
                   /\ pkg' = pkg
                   /\ Exit(ExitFatal)
              ELSE /\ trace' = Append(trace, Event("build.ImportDir", "ok"))
                   /\ pkg' = found
                   /\ pc' = "Files"
                   /\ exitCode' = exitCode
    /\ UNCHANGED <<args, force, gofmt, override, outStat, outFile, files,
                   fidx, buf, result>>
    /\ UNCHANGED <<prefix, suffix, compress, level, funcVars, codecVars>>

\* doIt, tmpl.Execute up to {{ range .Files }}: config.Files is called once;
\* its error ends Execute, doIt returns nil and the error, main exits
ExecFiles ==
    /\ pc = "Files"
    /\ LET f == Files(args, prefix, suffix)
       IN  IF f.err # "nil"
           THEN /\ trace' = Append(trace, Event("Files", "fail"))
                /\ result' = [data |-> NilDoc, err |-> f.err, ident |-> f.ident]
                /\ Exit(ExitFatal)
                /\ UNCHANGED <<files, fidx>>
           ELSE /\ trace' = Append(trace, Event("Files", "ok"))
                /\ files' = f.files
                /\ fidx' = 1
                /\ pc' = "Raw"
                /\ UNCHANGED <<result, exitCode>>
    /\ UNCHANGED <<args, force, gofmt, override, outStat, outFile, pkg, buf>>
    /\ UNCHANGED <<prefix, suffix, compress, level, funcVars, codecVars>>

\* the bytes ioutil.ReadFile can return for an input path
FileContents == {<<10>>}

\* one round of {{ range .Files }}: {{.Func}} and {{.Raw}} of the file at
\* fidx; ReadFile fails or returns bytes, pack can fail, and an error ends
\* Execute as above
ExecFile ==
    /\ pc = "Raw"
    /\ fidx <= Len(files)
    /\ \/ /\ trace' = Append(trace, Event("ioutil.ReadFile", "fail"))
          /\ result' = [data |-> NilDoc, err |-> "open: no such file",
                        ident |-> <<>>]
          /\ Exit(ExitFatal)
          /\ UNCHANGED <<buf, fidx>>
       \/ \E bytes \in FileContents :
             LET r == Raw(bytes, compress, level)
                 read == Append(trace, Event("ioutil.ReadFile", "ok"))
             IN  IF r.err # "nil"
                 THEN /\ trace' = Append(read, Event("pack", "fail"))
                      /\ result' = [data |-> NilDoc, err |-> r.err, ident |-> <<>>]
                      /\ Exit(ExitFatal)
                      /\ UNCHANGED <<buf, fidx>>
                 ELSE /\ trace' = Append(read, Event("Raw", "ok"))
                      /\ buf' = Append(buf,
                                   [name |-> Func(files[fidx], prefix, suffix),
                                    raw |-> r.str])
                      /\ fidx' = fidx + 1
                      /\ UNCHANGED <<result, pc, exitCode>>
    /\ UNCHANGED <<args, force, gofmt, override, outStat, outFile, pkg, files>>
    /\ UNCHANGED <<prefix, suffix, compress, level, funcVars, codecVars>>

\* doIt, lines 70-75, and main, lines 109-112: the rendered text is returned
\* as it is or through format.Source; main exits on an error
Format ==
    /\ pc = "Raw"
    /\ fidx > Len(files)
    /\ LET r == doItReturn(Doc(pkg, compress, buf), gofmt)
       IN  /\ result' = [data |-> r.data, err |-> r.err, ident |-> <<>>]
           /\ trace' = IF r.formatCalled
                       THEN Append(trace, Event("format.Source",
                                     IF r.err = "nil" THEN "ok" ELSE "fail"))
                       ELSE trace
           /\ IF r.err # "nil" THEN Exit(ExitFatal)
              ELSE pc' = "WriteFile" /\ exitCode' = exitCode
    /\ UNCHANGED <<args, force, gofmt, override, outStat, outFile, pkg, files,
                   fidx, buf>>
    /\ UNCHANGED <<prefix, suffix, compress, level, funcVars, codecVars>>

\* main, lines 114-117: ioutil.WriteFile creates or truncates the file and
\* writes data; it can fail before the file is opened or after it was truncated
WriteFile ==
    /\ pc = "WriteFile"
    /\ \E res \in {"ok", "open fails", "write fails"} :
          /\ trace' = Append(trace, Event("ioutil.WriteFile", res))
          /\ outFile' = IF res = "ok" THEN [kind |-> "data", doc |-> result.data]
                        ELSE IF res = "write fails"
                        THEN [kind |-> "partial", doc |-> NilDoc]
                        ELSE outFile
          /\ Exit(IF res = "ok" THEN 0 ELSE ExitFatal)
    /\ UNCHANGED <<args, force, gofmt, override, outStat, pkg, files,
                   fidx, buf, result>>
    /\ UNCHANGED <<prefix, suffix, compress, level, funcVars, codecVars>>

-----------------------------------------------------------------------------
(* SpecMain: one run of main                                                *)

\* the input paths:  a.txt  a.TXT  1
ArgPaths == {<<97, 46, 116, 120, 116>>, <<97, 46, 84, 88, 84>>, <<49>>}

\* values of -suffix:  ""  and  .txt
MainSuffixes == {<<>>, <<46, 116, 120, 116>>}

CodecIdle ==
    /\ content = <<>>
    /\ cpc = "idle"
    /\ literal = <<>>
    /\ edited = FALSE
    /\ ret = NoReturn

FuncIdle ==
    /\ Path = <<>>
    /\ fpc = "idle"
    /\ afterPrefix = <<>>
    /\ afterSuffix = <<>>
    /\ mapped = <<>>
    /\ lowered = <<>>
    /\ name = <<>>

NoResult == [data |-> NilDoc, err |-> "nil", ident |-> <<>>]

MainIdle ==
    /\ args = <<>>
    /\ force = FALSE
    /\ gofmt = FALSE
    /\ override = ""
    /\ outStat = "absent"
    /\ outFile = [kind |-> "none", doc |-> NilDoc]
    /\ pc = "idle"
    /\ exitCode = 0
    /\ pkg = ""
    /\ files = <<>>
    /\ fidx = 0
    /\ buf = <<>>
    /\ result = NoResult
    /\ trace = <<>>

InitMain ==
    /\ args \in SeqsUpTo(ArgPaths, MaxArgs)
    /\ prefix = <<>>
    /\ suffix \in MainSuffixes
    /\ compress \in BOOLEAN
    /\ level \in (IF compress THEN Levels ELSE {NoCompression})
    /\ force \in BOOLEAN
    /\ gofmt \in BOOLEAN
    /\ override \in {"", "main"}
    /\ outStat \in {"absent", "exists", "error"}
    /\ outFile = IF outStat = "absent" THEN [kind |-> "none", doc |-> NilDoc]
                 ELSE [kind |-> "old", doc |-> NilDoc]
    /\ pc = "flag.Parse"
    /\ exitCode = 0
    /\ pkg = ""
    /\ files = <<>>
    /\ fidx = 0
    /\ buf = <<>>
    /\ result = NoResult
    /\ trace = <<>>
    /\ FuncIdle
    /\ CodecIdle

NextMain ==
    \/ ParseArgs
    \/ CheckExists
    \/ ResolvePackage
    \/ ExecFiles
    \/ ExecFile
    \/ Format
    \/ WriteFile

SpecMain == InitMain /\ [][NextMain]_vars

-----------------------------------------------------------------------------
(* SpecCodec: one file embedded, then the generated function called         *)

\* the hex digits an edit of the generated file writes
EditDigits == {"0", "1", "6", "f"}

InitCodec ==
    /\ content \in Contents
    /\ compress \in BOOLEAN
    /\ level \in Levels
    /\ cpc = "generate"
    /\ literal = <<>>
    /\ edited = FALSE
    /\ ret = NoReturn
    /\ prefix = <<>>
    /\ suffix = <<>>
    /\ FuncIdle
    /\ MainIdle

\* {{.Raw}} of the template for a file whose ReadFile returned content: the
\* literal is rendered, or the error ends the generation
RenderRaw ==
    /\ cpc = "generate"
    /\ LET r == Raw(content, compress, level)
       IN  IF r.err = "nil"
           THEN literal' = r.str /\ cpc' = "generated"
           ELSE literal' = literal /\ cpc' = "failed"
    /\ UNCHANGED <<content, edited, ret, compress, level, prefix, suffix, funcVars, mainVars>>

\* the generated file is edited: one hex digit of the literal is overwritten
EditDigit ==
    /\ cpc = "generated"
    /\ ~edited
    /\ \E i \in 1..Len(literal), c \in EditDigits :
          /\ i % 4 \in {0, 3}
          /\ literal[i] # c
          /\ literal' = [literal EXCEPT ![i] = c]
    /\ edited' = TRUE
    /\ UNCHANGED <<content, cpc, ret, compress, level, prefix, suffix, funcVars, mainVars>>

\* the generated file is edited: the last escape of the literal is deleted
EditTruncate ==
    /\ cpc = "generated"
    /\ ~edited
    /\ Len(literal) >= 4
    /\ literal' = SubSeq(literal, 1, Len(literal) - 4)
    /\ edited' = TRUE
    /\ UNCHANGED <<content, cpc, ret, compress, level, prefix, suffix, funcVars, mainVars>>

\* the generated file is compiled and its function called
CallGenerated ==
    /\ cpc = "generated"
    /\ LET lit == Interpret(literal)
       IN  IF lit.ok
           THEN /\ ret' \in GeneratedFunc(lit.bytes, compress)
                /\ cpc' = "returned"
           ELSE /\ ret' = ret
                /\ cpc' = "nocompile"
    /\ UNCHANGED <<content, literal, edited, compress, level, prefix, suffix, funcVars, mainVars>>

NextCodec == RenderRaw \/ EditDigit \/ EditTruncate \/ CallGenerated

SpecCodec == InitCodec /\ [][NextCodec]_vars

-----------------------------------------------------------------------------
(* SpecFunc: file.Func called on every path, prefix and suffix              *)

\* the paths: every non-empty byte string up to the bound
Paths == SeqsUpTo(PathBytes, MaxPathLen) \ {<<>>}

\* values of -prefix and -suffix:  ""  "a"  "a."  ".a"  "A"  and the lone
\* bytes 0xC3 and 0x89, which cut a two-byte rune of the path in half
Fixes == {<<>>, <<97>>, <<97, 46>>, <<46, 97>>, <<65>>, <<195>>, <<137>>}

InitFunc ==
    /\ Path \in Paths
    /\ prefix \in Fixes
    /\ suffix \in Fixes
    /\ fpc = "call"
    /\ afterPrefix = <<>>
    /\ afterSuffix = <<>>
    /\ mapped = <<>>
    /\ lowered = <<>>
    /\ name = <<>>
    /\ compress = FALSE
    /\ level = NoCompression
    /\ CodecIdle
    /\ MainIdle

\* one call of file.Func; the locals keep the value `name` had after each
\* statement
FuncCall ==
    /\ fpc = "call"
    /\ afterPrefix' = TrimPrefix(Path, prefix)
    /\ afterSuffix' = TrimSuffix(afterPrefix', suffix)
    /\ mapped' = MapRep(afterSuffix')
    /\ lowered' = ToLower(mapped')
    /\ name' = TrimUnderscores(lowered')
    /\ fpc' = "done"
    /\ UNCHANGED <<Path, prefix, suffix, compress, level, codecVars, mainVars>>

NextFunc == FuncCall


SpecFunc == InitFunc /\ [][NextFunc]_vars

-----------------------------------------------------------------------------
(* Properties of file.Func (SpecFunc)                                      *)

InAZ09Underscore(r) ==
    \/ r >= 97 /\ r <= 122
    \/ r >= 48 /\ r <= 57
    \/ r = Underscore

StartsWith(s, p) == Len(p) <= Len(s) /\ \A k \in 1..Len(p) : s[k] = p[k]
EndsWith(s, x) ==
    Len(x) <= Len(s) /\ \A k \in 1..Len(x) : s[Len(s) - Len(x) + k] = x[k]

\* C3: the result of file.Func is a valid function name for every path,
\* prefix and suffix: it is not empty and does not begin with a digit.
C3_FuncIsValidName ==
    fpc = "done" => name # <<>> /\ ~IsDigit(Runes(name)[1])

\* a string the UTF-8 decoder reads without meeting an invalid byte
ValidUTF8(s) == EncodeRunes(Runes(s)) = s

\* C4 as stated, for a path that is valid UTF-8: every character of the
\* result is in [a-z0-9_] or is a non-ASCII letter; every input character
\* that is neither a digit nor a letter, a non-ASCII one included, became an
\* underscore.
C4_OnlyLettersPassThrough ==
    fpc = "done" /\ ValidUTF8(Path) /\ ValidUTF8(afterSuffix) =>
        LET rs == Runes(afterSuffix)
            ms == Runes(mapped)
            ns == Runes(name)
        IN  /\ \A k \in 1..Len(ns) :
                  InAZ09Underscore(ns[k]) \/ (ns[k] > MaxASCII /\ IsLetter(ns[k]))
            /\ Len(ms) = Len(rs)
            /\ \A k \in 1..Len(rs) :
                  ~IsDigit(rs[k]) /\ ~IsLetter(rs[k]) => ms[k] = Underscore

\* C4 amended: every character of the result is in [a-z0-9_] or is a code
\* point above 127; an ASCII character that is neither a digit nor a letter
\* became an underscore, and every digit, letter and code point above 127
\* (a letter or not, U+FFFD for an invalid byte included) was kept by the
\* mapping.
C4_AsciiReplacedNonAsciiKept ==
    fpc = "done" =>
        LET rs == Runes(afterSuffix)
            ms == Runes(mapped)
            ns == Runes(name)
        IN  /\ \A k \in 1..Len(ns) : InAZ09Underscore(ns[k]) \/ ns[k] > MaxASCII
            /\ Len(ms) = Len(rs)
            /\ \A k \in 1..Len(rs) :
                  IF rs[k] > MaxASCII \/ IsDigit(rs[k]) \/ IsLetter(rs[k])
                  THEN ms[k] = rs[k]
                  ELSE ms[k] = Underscore

\* a path with U+00D7 kept in the name and a dot that became an underscore
C4_Witness ==
    /\ fpc = "done"
    /\ \E k \in 1..Len(Runes(name)) : Runes(name)[k] = 215
    /\ \E k \in 1..Len(Runes(afterSuffix)) :
          Runes(afterSuffix)[k] = 46 /\ Runes(mapped)[k] = Underscore

\* C10 as stated: the prefix is removed if the path starts with it and the
\* suffix is removed if the path ends with it, also when the two overlap
\* inside the path; whichever is not present is left alone.
C10_StripsWhatThePathHas ==
    fpc = "done" =>
        afterSuffix =
            SubSeq(Path,
                   1 + (IF StartsWith(Path, prefix) THEN Len(prefix) ELSE 0),
                   Len(Path) - (IF EndsWith(Path, suffix) THEN Len(suffix) ELSE 0))

\* C10 amended: the prefix is removed if the path starts with it; the suffix
\* is removed if what is left after that ends with it, so a suffix that
\* overlaps the removed prefix stays; otherwise nothing is removed.  The
\* comparison is byte for byte (case-sensitive), and mapping and lowercasing
\* apply to the stripped string.
C10_StripsPrefixThenSuffix ==
    fpc = "done" =>
        /\ IF StartsWith(Path, prefix)
           THEN Path = prefix \o afterPrefix
           ELSE afterPrefix = Path
        /\ IF EndsWith(afterPrefix, suffix)
           THEN afterPrefix = afterSuffix \o suffix
           ELSE afterSuffix = afterPrefix
        /\ name = TrimUnderscores(ToLower(MapRep(afterSuffix)))

\* the path starts with the prefix and ends with the suffix, the two overlap,
\* and something is left
C10_Witness ==
    /\ fpc = "done"
    /\ prefix # <<>>
    /\ suffix # <<>>
    /\ StartsWith(Path, prefix)
    /\ EndsWith(Path, suffix)
    /\ Len(prefix) + Len(suffix) > Len(Path)
    /\ afterSuffix # <<>>

-----------------------------------------------------------------------------
(* Properties of the encoding and the generated function (SpecCodec)       *)

\* C1: round trip.  The generated function for a file with bytes B, with or
\* without compression, compiles and returns exactly B and a nil error
\* (the generated file not having been edited).
C1_RoundTrip ==
    ~edited =>
        /\ cpc # "nocompile"
        /\ cpc = "returned" =>
              ret.bytes = content /\ ret.err = "nil" /\ ~ret.isNil /\ ~ret.panic

\* a compressed file of two bytes came back
C1_Witness ==
    /\ cpc = "returned"
    /\ ~edited
    /\ compress
    /\ Len(content) >= 2
    /\ ret.bytes = content

\* C8: whatever the literal holds, a call of the generated function returns
\* bytes and a nil error, or nil and an error; it never panics.
C8_DecodeErrorsAreValues ==
    cpc = "returned" =>
        /\ ~ret.panic
        /\ \/ ret.err = "nil" /\ ~ret.isNil
           \/ ret.err # "nil" /\ ret.isNil /\ ret.bytes = <<>>

\* an edited literal that is no DEFLATE stream made the call return an error
C8_Witness ==
    /\ cpc = "returned"
    /\ edited
    /\ compress
    /\ ret.err = "flate: corrupt input"

-----------------------------------------------------------------------------
(* Properties of main (SpecMain)                                           *)

Names == [k \in 1..Len(args) |-> Func(args[k], prefix, suffix)]

Distinct == \A i, j \in 1..Len(args) : i < j => Names[i] # Names[j]

\* the first input, in input order, whose name is that of an earlier input
FirstDuplicate ==
    CHOOSE j \in 1..Len(args) :
        /\ \E i \in 1..(j - 1) : Names[i] = Names[j]
        /\ \A k \in 1..(j - 1) : \A i \in 1..(k - 1) : Names[i] # Names[k]

Happened(op, res) == \E k \in 1..Len(trace) : trace[k] = Event(op, res)
Called(op) == \E k \in 1..Len(trace) : trace[k].op = op

\* what the output path held when main started
InitialOutFile ==
    IF outStat = "absent" THEN [kind |-> "none", doc |-> NilDoc]
    ELSE [kind |-> "old", doc |-> NilDoc]

ReadOps == {"ioutil.ReadFile", "pack", "Raw"}

\* C2: config.Files succeeds if and only if the derived identifiers of the
\* inputs are pairwise distinct; otherwise the run fails with the duplicate
\* error naming the identifier of the first input whose name equals that of
\* an earlier one, and no document is produced.
C2_FilesIffDistinct ==
    /\ Happened("Files", "ok") => Distinct
    /\ Happened("Files", "fail") =>
          /\ ~Distinct
          /\ result.err = "duplicate function detected"
          /\ result.ident = Names[FirstDuplicate]
          /\ result.data.isNil
          /\ pc = "exited" /\ exitCode # 0
          /\ ~Called("ioutil.WriteFile")
          /\ outFile = InitialOutFile

\* two different paths with the same name were refused
C2_Witness ==
    /\ Happened("Files", "fail")
    /\ \E i, j \in 1..Len(args) :
          i < j /\ args[i] # args[j] /\ Names[i] = Names[j]

\* C9: when two inputs derive the same identifier, the run fails with the
\* duplicate error and no input file is ever read, compressed or encoded.
C9_CollisionBeforeEncoding ==
    ~Distinct =>
        /\ \A k \in 1..Len(trace) : trace[k].op \notin ReadOps
        /\ Called("Files") =>
              /\ pc = "exited" /\ exitCode # 0
              /\ result.err = "duplicate function detected"

\* a.txt and a.TXT with empty prefix and suffix were refused
C9_Witness ==
    /\ args = <<<<97, 46, 116, 120, 116>>, <<97, 46, 84, 88, 84>>>>
    /\ prefix = <<>> /\ suffix = <<>>
    /\ Happened("Files", "fail")

Failures == {"fail", "exists", "error", "open fails", "write fails"}

\* C5: the output file is written at most once, as the last step and only
\* after every earlier stage succeeded; any failure ends the run at once
\* with a non-zero exit, and a run without input paths prints the usage and
\* exits non-zero without writing.
C5_AllOrNothing ==
    /\ Cardinality({k \in 1..Len(trace) : trace[k].op = "ioutil.WriteFile"}) <= 1
    /\ \A k \in 1..Len(trace) :
          trace[k].op = "ioutil.WriteFile" =>
              /\ k = Len(trace)
              /\ \A j \in 1..(k - 1) : trace[j].res \notin Failures
              /\ Len(args) >= 1
              /\ force \/ Happened("os.Stat", "absent")
              /\ override # "" \/ Happened("build.ImportDir", "ok")
              /\ pkg # ""
              /\ Happened("Files", "ok") /\ Distinct
              /\ Cardinality({j \in 1..k : trace[j] = Event("Raw", "ok")})
                    = Len(args)
              /\ gofmt => Happened("format.Source", "ok")
              /\ ~result.data.isNil
    /\ \A k \in 1..Len(trace) :
          trace[k].res \in Failures =>
              k = Len(trace) /\ pc = "exited" /\ exitCode # 0
    /\ ~Called("ioutil.WriteFile") => outFile = InitialOutFile
    /\ pc = "exited" /\ ~Happened("ioutil.WriteFile", "ok") => exitCode # 0
    /\ pc = "exited" /\ exitCode = 0 => outFile = [kind |-> "data", doc |-> result.data]
    /\ Len(args) = 0 /\ pc # "flag.Parse" =>
          /\ trace = <<Event("flag.Usage", "ok")>>
          /\ pc = "exited" /\ exitCode # 0

\* a run over two inputs wrote the document and exited 0
C5_Witness ==
    /\ pc = "exited"
    /\ exitCode = 0
    /\ Len(args) = 2
    /\ outFile.kind = "data"

LaterStages ==
    {"build.ImportDir", "Files", "ioutil.ReadFile", "pack", "Raw",
     "format.Source", "ioutil.WriteFile"}

\* C6: when the output path exists and -force is unset, main exits non-zero
\* before the package is resolved or anything is generated and the file keeps
\* its contents; with -force set, once generation succeeded, the file is
\* written over: ioutil.WriteFile is called on it and, returning nil, has
\* left the generated document in it.
C6_OverwriteGuard ==
    /\ outStat = "exists" /\ ~force =>
          /\ outFile = [kind |-> "old", doc |-> NilDoc]
          /\ pkg = ""
          /\ \A k \in 1..Len(trace) : trace[k].op \notin LaterStages
          /\ pc \notin {"flag.Parse", "exists"} => pc = "exited" /\ exitCode # 0
    /\ outStat = "exists" /\ force /\ ~result.data.isNil =>
          /\ ~Called("os.Stat")
          /\ pc \in {"WriteFile", "exited"}
          /\ pc = "exited" =>
                /\ Called("ioutil.WriteFile")
                /\ Happened("ioutil.WriteFile", "ok") =>
                      outFile = [kind |-> "data", doc |-> result.data]
                /\ outFile.kind = "old" => Happened("ioutil.WriteFile", "open fails")

\* an existing file was written over under -force
C6_Witness ==
    /\ outStat = "exists"
    /\ force
    /\ pc = "exited"
    /\ outFile.kind = "data"
    /\ Len(outFile.doc.funcs) >= 1

\* C7: when formatting is on and the formatter rejects the rendered text,
\* doIt returns an error and no bytes, and nothing is written; the text is
\* returned unformatted and without error only when formatting is off, and
\* then the formatter is not called.
C7_FormatFailureIsFatal ==
    /\ Happened("format.Source", "fail") =>
          /\ gofmt
          /\ result.err # "nil"
          /\ result.data.isNil
          /\ pc = "exited" /\ exitCode # 0
          /\ ~Called("ioutil.WriteFile")
          /\ outFile = InitialOutFile
    /\ ~result.data.isNil /\ ~result.data.formatted =>
          ~gofmt /\ ~Called("format.Source") /\ result.err = "nil"
    /\ ~gofmt => ~Called("format.Source")
    /\ ~result.data.isNil => result.data.formatted = gofmt

\* the formatter rejected a document whose function is named 1
C7_Witness ==
    /\ Happened("format.Source", "fail")
    /\ args = <<<<49>>>>

=============================================================================
